---- MODULE Spec2Model ----
(***************************************************************************)
(* Dispatch and live-tracking engine of the delivery system:               *)
(*   src/src/backend/services/vehicle_movement_service.py                  *)
(*   src/src/backend/services/rede_service.py  (routes, positions)         *)
(*   src/src/backend/api/websocket.py          (connection manager, loops) *)
(*                                                                         *)
(* Time.  The code works with wall-clock datetimes.  The model keeps every *)
(* stored instant relative to "now": pause_until holds pause_until - now   *)
(* (clamped at 0 once elapsed), last_update holds now - last_update.  The  *)
(* code only ever compares or subtracts these instants against the current *)
(* time, so the relative form carries the same information.  Time passes   *)
(* in the action Advance, while every task is suspended in asyncio.sleep;  *)
(* a sleep ends no earlier than requested and the observed gaps are drawn  *)
(* from Delays (seconds).                                                  *)
(***************************************************************************)
EXTENDS Integers, Sequences, FiniteSets, TLC

\* ---------------------------------------------------------------- bounds
MaxDemand == 2
ElapsedCap == 600
MaxOverdraw == 2
MaxLoops == 1
MaxCoord == 2

\* ------------------------------------------------------ program constants
NumWaypoints == 10
TargetProgress == 100

Delays == {60, 300}
DelaysWS == {300}
SpeedsInitial == {8}
SpeedsMoving == {20}
SpeedsReturning == {18}
DeliveryPauses == {0, 60}
RefuelPauses == {90, 120}
RealWaypointCounts == {3}

NoPause == -1
NoClient == "none"
NoHub == ""
NoRoute == <<"none", "none">>

ConnOrder == <<"k1", "k2">>
Conns == {ConnOrder[i] : i \in DOMAIN ConnOrder}
AllVehicles == {"v1", "v2", "v3"}
AllClients == {"c1", "c2"}
Hubs == {"h1", "h2"}
RouteKinds == {"route_1", "return", "return_ts"}
\* the key of a route a client asked for, the place a client reported, and
\* the key None of a position reported without a vehicle_id
ClientRoute == <<"client", "route">>
ClientPlace == <<"client", "place">>
NoVehicle == "null"
RouteIds == (AllVehicles \X RouteKinds) \cup {ClientRoute}

Min(a, b) == IF a < b THEN a ELSE b
Max(a, b) == IF a > b THEN a ELSE b
Range(s) == {s[i] : i \in DOMAIN s}
Put(f, k, val) == [x \in DOMAIN f \cup {k} |-> IF x = k THEN val ELSE f[x]]

\* ------------------------------------------------------------- networks
\* A network (RedeEntrega) as far as the engine reads it: the ordered
\* vehicle and client lists, each vehicle's hub_base, each client's
\* demanda_media and prioridade.value, the places of the clients, and the
\* value _calculate_distance returns for each (hub, client) pair.
URGENTE == 1
NORMAL == 3

\* Places are <<latitude, longitude>> in grid steps.
HubAt == [h \in Hubs |-> IF h = "h1" THEN <<0, 0>> ELSE <<4, 4>>]

\* The layouts of the clients: at one latitude, each nearer to one hub, and
\* c1 nearer to both hubs.
LocalFlat == [c \in AllClients |-> IF c = "c1" THEN <<2, 3>> ELSE <<2, 1>>]
LocalNear == [c \in AllClients |-> IF c = "c1" THEN <<1, 1>> ELSE <<3, 3>>]
LocalC1 == [c \in AllClients |-> IF c = "c1" THEN <<2, 2>> ELSE <<7, 7>>]

\* The distance between two places over the extent of a city, where the
\* haversine grows with dlat^2 + dlon^2.
DistanciaReal(p, q) ==
  (q[1] - p[1]) * (q[1] - p[1]) + (q[2] - p[2]) * (q[2] - p[2])

\* _calculate_distance(lat1, lon1, lat2, lon2): dlat = lat2 - lat1 and
\* dlon = lat2 - lon1, the second longitude is not read
CalculateDistance(p, q) ==
  LET dlat == q[1] - p[1]
      dlon == q[1] - p[2]
  IN dlat * dlat + dlon * dlon

DistOf(L) == [p \in Hubs \X AllClients |-> CalculateDistance(HubAt[p[1]], L[p[2]])]

MkRede(vs, hb, cs, dm, pr, L) ==
  [veiculos |-> vs, hub_base |-> hb, clientes |-> cs,
   demanda_media |-> dm, prioridade |-> pr, local |-> L, dist |-> DistOf(L)]

HubBaseStd == [v \in AllVehicles |-> IF v = "v2" THEN "h2" ELSE "h1"]
HubBaseV2Missing == [v \in AllVehicles |-> IF v = "v2" THEN NoHub ELSE "h1"]

Demands(cs) == [Range(cs) -> 1..MaxDemand]
PrioSame(cs) == [c \in Range(cs) |-> NORMAL]
Prios2 == { [c \in AllClients |-> NORMAL],
            [c \in AllClients |-> IF c = "c1" THEN URGENTE ELSE NORMAL],
            [c \in AllClients |-> IF c = "c2" THEN URGENTE ELSE NORMAL] }

Redes11 == { MkRede(<<"v1">>, HubBaseStd, <<"c1">>, dm, PrioSame(<<"c1">>), LocalFlat) :
               dm \in Demands(<<"c1">>) }
Redes21 == { MkRede(<<"v1", "v2">>, hb, <<"c1">>, dm, PrioSame(<<"c1">>), LocalFlat) :
               dm \in Demands(<<"c1">>), hb \in {HubBaseStd, HubBaseV2Missing} }
Redes31 == { MkRede(<<"v1", "v2", "v3">>, HubBaseStd, <<"c1">>, dm, PrioSame(<<"c1">>), LocalFlat) :
               dm \in {[c \in {"c1"} |-> 1]} }
Redes12 == { MkRede(<<"v1">>, HubBaseStd, <<"c1", "c2">>, dm, pr, di) :
               dm \in {[c \in AllClients |-> 1]}, pr \in Prios2, di \in {LocalFlat, LocalNear} }
Redes22 == { MkRede(<<"v1", "v2">>, HubBaseStd, <<"c1", "c2">>, dm, pr, di) :
               dm \in {[c \in AllClients |-> 1]}, pr \in Prios2, di \in {LocalNear, LocalC1} }
Redes == Redes11 \cup Redes21 \cup Redes31 \cup Redes12 \cup Redes22
\* the networks the tracking endpoint is explored on
RedesWS ==
  { MkRede(<<"v1">>, HubBaseStd, <<"c1">>, [c \in {"c1"} |-> 1],
           PrioSame(<<"c1">>), LocalFlat) }

VARIABLES
  rede,                     \* RedeService.redes_cache[rede_id]
  real_network_graph,       \* RedeService.real_network_graph: "none" or "G"
  detailed_routes,          \* RedeService.detailed_routes
  vehicle_positions,        \* RedeService.vehicle_positions
  is_running,               \* VehicleMovementService.is_running
  vehicle_states,           \* VehicleMovementService.vehicle_states
  attrs_set,                \* hasattr(self, 'demanda_restante')
  demanda_restante,         \* VehicleMovementService.demanda_restante
  clientes_em_atendimento,  \* VehicleMovementService.clientes_em_atendimento
  clientes_atendidos,       \* VehicleMovementService.clientes_atendidos[rede_id]
  tick_pc,                  \* position of _movement_loop
  tick_idx,                 \* index of the vehicle the tick is at
  tick_due,                 \* the loop's sleep has elapsed
  ev,                       \* the last operation that ran (history)
  conn,                     \* each websocket_endpoint handler and its socket
  active_connections,       \* ConnectionManager.active_connections[rede_id]
  last_data,                \* ConnectionManager.last_data[rede_id]
  broadcasting,             \* ConnectionManager.broadcasting[rede_id]
  has_service,              \* rede_id in ConnectionManager.movement_services
  bl,                       \* the broadcast_real_time_updates tasks
  cl,                       \* the periodic_cleanup tasks
  dirty,                    \* a position or route was written since the last payload was built
  rota,                     \* the last call of calcular_rota_detalhada without a route_id
  users,                    \* the rows of the users table, by username
  resp,                     \* the last request to the user endpoints and its status code
  outra                     \* the movement service of a second network with the same vehicle ids

\* the movement and route services' own state
mstate == <<rede, real_network_graph, detailed_routes, vehicle_positions,
            is_running, vehicle_states, attrs_set, demanda_restante,
            clientes_em_atendimento, clientes_atendidos,
            tick_pc, tick_idx, tick_due>>

\* what the tracking endpoint and the simulation never touch
others == <<rota, users, resp, outra>>

\* ------------------------------------------------------ records
Absent == [optimized |-> FALSE, nwp |-> 0]
NoPos == [route |-> NoRoute, pct |-> 0, speed |-> 0, status |-> "none"]

\* VehicleMovementState(...)
MkState(st, rid, prog, spd, pause, cli) ==
  [status |-> st, route_id |-> rid, progress_percent |-> prog,
   movement_speed |-> spd, pause_until |-> pause,
   current_client_id |-> cli, last_update |-> 0]

IdleState == MkState("idle", NoRoute, 0, 10, NoPause, NoClient)

\* The part of the two services that the assignment code reads and writes.
Svc == [vs |-> vehicle_states, attrs |-> attrs_set, dr |-> demanda_restante,
        ea |-> clientes_em_atendimento, routes |-> detailed_routes,
        graph |-> real_network_graph]

HubOf(v) == rede.hub_base[v]
HasHub(v) == HubOf(v) \in Hubs

\* ------------------------------------------------ route geometry service
\* calcular_rota_detalhada with a route_id: loads the road graph on first
\* use (the load may fail and is retried on the next call), returns and
\* stores a real route when the graph and a path exist, and the synthetic
\* 10-waypoint route otherwise.
\* variant: the route is computed but not kept in the store
CalcularRotaDetalhadaUnstored(S, rid) == {S}

CalcularRotaDetalhada(S, rid) ==
  LET graphs == IF S.graph = "G" THEN {"G"} ELSE {"none", "G"}
      recs(g) == IF g = "none"
                   THEN {[optimized |-> FALSE, nwp |-> NumWaypoints]}
                   ELSE {[optimized |-> TRUE, nwp |-> n] : n \in RealWaypointCounts}
                        \cup {[optimized |-> FALSE, nwp |-> NumWaypoints]}
  IN UNION { { [S EXCEPT !.graph = g, !.routes[rid] = r] : r \in recs(g) } :
             g \in graphs }

\* obter_rotas_otimizadas_para_veiculo for one client: the outbound route
\* "<vehicle>_route_1" and the route back "<vehicle>_return".  The result is
\* the set of possible (service, returned list) pairs.
ObterRotasOtimizadas(S, v, c) ==
  IF ~HasHub(v) \/ v \notin Range(rede.veiculos)
    THEN {[svc |-> S, rotas |-> <<>>]}
    ELSE { [svc |-> S2, rotas |-> << <<v, "route_1">>, <<v, "return">> >>] :
           S2 \in UNION { CalcularRotaDetalhada(S1, <<v, "return">>) :
                          S1 \in CalcularRotaDetalhada(S, <<v, "route_1">>) } }

\* ------------------------------------------------ dispatch assignment
DemandaView(S) == IF S.attrs THEN S.dr ELSE rede.demanda_media
AtendimentoView(S) == IF S.attrs THEN S.ea ELSE {}

\* variant: clients already in service are offered again
ClientesDisponiveisAll(S) ==
  SelectSeq(rede.clientes, LAMBDA c : DemandaView(S)[c] > 0)

ClientesDisponiveis(S) ==
  SelectSeq(rede.clientes,
            LAMBDA c : DemandaView(S)[c] > 0 /\ c \notin AtendimentoView(S))

PrioridadeMin(cs) ==
  CHOOSE p \in {rede.prioridade[c] : c \in Range(cs)} :
    \A c \in Range(cs) : p <= rede.prioridade[c]

CandidatosPrioridade(cs) ==
  SelectSeq(cs, LAMBDA c : rede.prioridade[c] = PrioridadeMin(cs))

\* first candidate with the strictly smallest distance to the hub
MelhorCliente(h, cands) ==
  LET i == CHOOSE i \in DOMAIN cands :
             /\ \A j \in DOMAIN cands : rede.dist[<<h, cands[i]>>] <= rede.dist[<<h, cands[j]>>]
             /\ \A j \in 1..(i - 1) : rede.dist[<<h, cands[j]>>] > rede.dist[<<h, cands[i]>>]
  IN cands[i]

\* variant: the chosen client is not marked as in service
AssignNewRouteUnmarked(S, v) ==
  IF v \notin Range(rede.veiculos) \/ ~HasHub(v) THEN {S}
  ELSE LET disp == ClientesDisponiveis(S) IN
    IF disp = <<>> THEN {S}
    ELSE LET melhor == MelhorCliente(HubOf(v), CandidatosPrioridade(disp))
             S1 == [S EXCEPT !.attrs = TRUE, !.dr = DemandaView(S),
                             !.ea = AtendimentoView(S)]
         IN UNION { { [r.svc EXCEPT !.vs = Put(r.svc.vs, v,
                         MkState("moving", r.rotas[1], 0, spd, NoPause, melhor))] :
                      spd \in SpeedsMoving } :
                    r \in ObterRotasOtimizadas(S1, v, melhor) }

AssignNewRoute(S, v) ==
  IF v \notin Range(rede.veiculos) \/ ~HasHub(v) THEN {S}
  ELSE LET disp == ClientesDisponiveis(S) IN
    IF disp = <<>> THEN {S}
    ELSE LET melhor == MelhorCliente(HubOf(v), CandidatosPrioridade(disp))
             S1 == [S EXCEPT !.attrs = TRUE, !.dr = DemandaView(S),
                             !.ea = AtendimentoView(S) \cup {melhor}]
         IN UNION { IF r.rotas # <<>>
                      THEN { [r.svc EXCEPT !.vs = Put(r.svc.vs, v,
                                MkState("moving", r.rotas[1], 0, spd, NoPause, melhor))] :
                             spd \in SpeedsMoving }
                      ELSE { [r.svc EXCEPT !.vs = Put(r.svc.vs, v, IdleState)] } :
                    r \in ObterRotasOtimizadas(S1, v, melhor) }

\* _maybe_assign_new_routes: assign in turn to every vehicle that was idle
\* and not paused when the call started.
RECURSIVE AssignEach(_, _)
AssignEach(Ss, vseq) ==
  IF vseq = <<>> THEN Ss
  ELSE AssignEach(UNION {AssignNewRoute(S, Head(vseq)) : S \in Ss}, Tail(vseq))

\* variant: every vehicle is offered a route, whatever its status
IdleVehiclesAny(S) ==
  SelectSeq(rede.veiculos, LAMBDA v : v \in DOMAIN S.vs)

\* the vehicles that are idle and not paused when _maybe_assign_new_routes starts
IdleVehicles(S) ==
  SelectSeq(rede.veiculos,
            LAMBDA v : /\ v \in DOMAIN S.vs
                       /\ S.vs[v].status = "idle"
                       /\ S.vs[v].pause_until <= 0)

MaybeAssignNewRoutes(S) == AssignEach({S}, IdleVehicles(S))

SetSvc(S) ==
  /\ vehicle_states' = S.vs
  /\ attrs_set' = S.attrs
  /\ demanda_restante' = S.dr
  /\ clientes_em_atendimento' = S.ea
  /\ detailed_routes' = S.routes
  /\ real_network_graph' = S.graph

\* ------------------------------------------------ simulation start
\* The sequential greedy matching of _initialize_vehicle_states: each vehicle
\* with a hub takes the nearest client with demand that no earlier vehicle
\* took (priority is not consulted here).
RECURSIVE Atribuicoes(_, _)
Atribuicoes(vseq, taken) ==
  IF vseq = <<>> THEN [v \in {} |-> NoClient]
  ELSE LET v == Head(vseq)
           livres == SelectSeq(rede.clientes,
                       LAMBDA c : rede.demanda_media[c] > 0 /\ c \notin taken)
       IN IF HasHub(v) /\ livres # <<>>
            THEN LET c == MelhorCliente(HubOf(v), livres)
                 IN Put(Atribuicoes(Tail(vseq), taken \cup {c}), v, c)
            ELSE Atribuicoes(Tail(vseq), taken)

RECURSIVE InitEach(_, _, _)
InitEach(Ss, vseq, atr) ==
  IF vseq = <<>> THEN Ss
  ELSE LET v == Head(vseq)
           step(S) ==
             IF v \in DOMAIN atr
               THEN UNION { AssignNewRoute(
                              [S EXCEPT !.vs = Put(S.vs, v,
                                 MkState("moving", NoRoute, 0, spd, NoPause, atr[v]))], v) :
                            spd \in SpeedsInitial }
               ELSE { [S EXCEPT !.vs = Put(S.vs, v, IdleState)] }
       IN InitEach(UNION {step(S) : S \in Ss}, Tail(vseq), atr)

InitializeVehicleStates(S) ==
  LET atr == Atribuicoes(rede.veiculos, {})
      S0 == [S EXCEPT !.vs = [v \in {} |-> IdleState]]
  IN { [S2 EXCEPT !.attrs = TRUE, !.dr = rede.demanda_media,
                  !.ea = {atr[v] : v \in DOMAIN atr}] :
       S2 \in InitEach({S0}, rede.veiculos, atr) }

\* ------------------------------------------------ position interpolation
\* status that simular_movimento_veiculo stores with the position
SimStatus(nwp, p) ==
  LET tw == nwp - 1
      idx1 == (p * tw) \div 100
      idx2 == Min(idx1 + 1, tw)
  IN IF tw = 0 THEN (IF p < 100 THEN "moving" ELSE "idle")
     ELSE IF p >= 100 THEN "idle"
     ELSE IF idx2 = tw /\ idx2 * 100 - p * tw < 10 THEN "delivering"
     ELSE "moving"

SimSpeed(nwp, p) == IF nwp - 1 = 0 /\ p >= 100 THEN 0 ELSE 1

SimularMovimento(rid, p) ==
  LET r == detailed_routes[rid]
      q == Max(0, Min(100, p))
  IN [route |-> rid, pct |-> IF r.nwp - 1 = 0 THEN 0 ELSE q,
      speed |-> SimSpeed(r.nwp, q), status |-> SimStatus(r.nwp, q)]

RouteUsable(rid) == rid \in RouteIds /\ detailed_routes[rid].nwp > 0

\* progress after one update of a travelling vehicle
ProgressIncrement(st) == (st.movement_speed * st.last_update) \div 60
NewProgress(st, target) == Min(target, st.progress_percent + ProgressIncrement(st))

\* _create_return_route: no route without the road graph or without a path
ReturnRouteOutcomes(v) ==
  IF ~HasHub(v) \/ vehicle_positions[v] = NoPos \/ real_network_graph = "none"
    THEN {Absent}
    ELSE {[optimized |-> TRUE, nwp |-> n] : n \in RealWaypointCounts} \cup {Absent}

\* variant: the return leg keeps the progress of the outbound leg
ReturnStartProgressKept(st) == st.progress_percent

\* progress_percent at the start of the return leg
ReturnStartProgress(st) == 0

\* variant: a vehicle that reaches its hub is idle at once
HubArrivalStatusIdle == "idle"

\* the status _vehicle_arrived_at_hub gives the vehicle
HubArrivalStatus == "refueling"

\* _should_finish_simulation, evaluated on the given vehicle states
ShouldFinish(vs) ==
  LET all_idle == \A v \in DOMAIN vs : vs[v].status = "idle"
      em == {vs[v].current_client_id : v \in DOMAIN vs} \ {NoClient}
      disp == {c \in Range(rede.clientes) : c \notin clientes_atendidos /\ c \notin em}
  IN all_idle /\ disp = {}

\* ------------------------------------------------ actions
Ev(op, v) == [op |-> op, veh |-> v]

\* operations that write a vehicle position or a stored route
WriteOps == {"start", "subscribe_start", "move", "arrive", "deliver_return",
             "return_move", "hub_arrival", "refuel_assign", "idle_assign",
             "tick_end_assign"}

\* the movement service does not touch the connection manager
MovementFrame ==
  /\ dirty' = (dirty \/ ev'.op \in WriteOps)
  /\ UNCHANGED <<conn, active_connections, last_data, broadcasting,
                 has_service, bl, cl>>
  /\ UNCHANGED others

\* a VehicleMovementService as its constructor leaves it
FreshSvc == [Svc EXCEPT !.vs = [v \in {} |-> IdleState], !.attrs = FALSE,
                        !.dr = [c \in {} |-> 0], !.ea = {}]

InitService ==
  /\ real_network_graph = "none"
  /\ detailed_routes = [r \in RouteIds |-> Absent]
  /\ vehicle_positions = [v \in AllVehicles |-> NoPos]
  /\ is_running = FALSE
  /\ vehicle_states = [v \in {} |-> IdleState]
  /\ attrs_set = FALSE
  /\ demanda_restante = [c \in {} |-> 0]
  /\ clientes_em_atendimento = {}
  /\ clientes_atendidos = {}
  /\ tick_pc = "none"
  /\ tick_idx = 0
  /\ tick_due = FALSE
  /\ ev = Ev("new", "none")

InitM == rede \in Redes /\ InitService

\* start_automatic_movement: set the flag, initialise, spawn the loop
StartAutomaticMovement ==
  /\ tick_pc = "none"
  /\ ~is_running
  /\ is_running' = TRUE
  /\ \E S \in InitializeVehicleStates(FreshSvc) : SetSvc(S)
  /\ tick_pc' = "sleep"
  /\ tick_due' = TRUE
  /\ tick_idx' = 0
  /\ ev' = Ev("start", "none")
  /\ UNCHANGED <<rede, vehicle_positions, clientes_atendidos>>
  /\ MovementFrame

\* _movement_loop: the while test after the sleep; the loop ends when the
\* flag was cleared, otherwise the tick reads the current time and begins.
TickStart ==
  /\ tick_pc = "sleep"
  /\ tick_due
  /\ IF is_running
       THEN /\ tick_pc' = "update"
            /\ tick_idx' = 1
            /\ ev' = Ev("tick_start", "none")
       ELSE /\ tick_pc' = "exited"
            /\ tick_idx' = 0
            /\ ev' = Ev("loop_exit", "none")
  /\ UNCHANGED <<rede, real_network_graph, detailed_routes, vehicle_positions,
                 is_running, vehicle_states, attrs_set, demanda_restante,
                 clientes_em_atendimento, clientes_atendidos, tick_due>>
  /\ MovementFrame

Touch(st) == [st EXCEPT !.last_update = 0]

\* variant: the pause is not looked at
PausedNever(st) == FALSE

\* state.pause_until and current_time < state.pause_until
Paused(st) == st.pause_until > 0

\* variant: an update that raised ends the tick for the vehicles after it
TickIndexAfterAbort(i, failed) == IF failed THEN Len(rede.veiculos) + 1 ELSE i + 1

\* the for loop of _movement_loop: an exception raised by the update of a
\* vehicle is caught inside the call, and the loop goes on with the next
TickIndexAfter(i, failed) == i + 1

\* _update_vehicle_movement for the vehicle the tick is at
UpdateVehicle ==
  /\ tick_pc = "update"
  /\ tick_idx <= Len(rede.veiculos)
  /\ UNCHANGED <<rede, tick_pc, tick_due>>
  /\ LET v == rede.veiculos[tick_idx]
         st == vehicle_states[v]
     IN
     IF Paused(st) THEN
       \* paused: nothing happens
       /\ ev' = Ev("frozen", v)
       /\ UNCHANGED <<real_network_graph, detailed_routes, vehicle_positions,
                      is_running, vehicle_states, attrs_set, demanda_restante,
                      clientes_em_atendimento, clientes_atendidos>>
     ELSE IF st.status = "refueling" THEN
       /\ \E S \in AssignNewRoute(Svc, v) :
            /\ SetSvc(S)
            /\ ev' = Ev(IF S = Svc THEN "refuel_none" ELSE "refuel_assign", v)
       /\ UNCHANGED <<vehicle_positions, is_running, clientes_atendidos>>
     ELSE IF st.status = "idle" THEN
       /\ \E coin \in BOOLEAN :
            IF coin
              THEN \E S \in AssignNewRoute(Svc, v) :
                     /\ SetSvc([S EXCEPT !.vs[v] = Touch(S.vs[v])])
                     /\ ev' = Ev(IF S = Svc THEN "idle_none" ELSE "idle_assign", v)
              ELSE /\ SetSvc([Svc EXCEPT !.vs[v] = Touch(st)])
                   /\ ev' = Ev("idle_skip", v)
       /\ UNCHANGED <<vehicle_positions, is_running, clientes_atendidos>>
     ELSE IF st.status = "moving" /\ st.route_id # NoRoute THEN
       LET newp == NewProgress(st, TargetProgress) IN
       IF ~RouteUsable(st.route_id) THEN
         /\ vehicle_states' = [vehicle_states EXCEPT ![v] = Touch(st)]
         /\ ev' = Ev("no_route", v)
         /\ UNCHANGED <<real_network_graph, detailed_routes, vehicle_positions,
                        is_running, attrs_set, demanda_restante,
                        clientes_em_atendimento, clientes_atendidos>>
       ELSE IF newp >= TargetProgress THEN
         /\ \E pause \in DeliveryPauses :
              vehicle_states' = [vehicle_states EXCEPT ![v] =
                 Touch([st EXCEPT !.progress_percent = newp,
                                  !.status = "delivering",
                                  !.pause_until = pause])]
         /\ vehicle_positions' = [vehicle_positions EXCEPT ![v] =
               [SimularMovimento(st.route_id, newp) EXCEPT
                  !.speed = 0, !.status = "delivering"]]
         /\ IF st.current_client_id # NoClient
              THEN /\ clientes_atendidos' = clientes_atendidos \cup {st.current_client_id}
                   /\ clientes_em_atendimento' =
                        IF attrs_set THEN clientes_em_atendimento \ {st.current_client_id}
                                     ELSE clientes_em_atendimento
              ELSE UNCHANGED <<clientes_atendidos, clientes_em_atendimento>>
         /\ ev' = Ev("arrive", v)
         /\ UNCHANGED <<real_network_graph, detailed_routes, is_running,
                        attrs_set, demanda_restante>>
       ELSE
         /\ vehicle_states' = [vehicle_states EXCEPT ![v] =
               Touch([st EXCEPT !.progress_percent = newp])]
         /\ vehicle_positions' = [vehicle_positions EXCEPT ![v] =
               SimularMovimento(st.route_id, newp)]
         /\ ev' = Ev("move", v)
         /\ UNCHANGED <<real_network_graph, detailed_routes, is_running,
                        attrs_set, demanda_restante,
                        clientes_em_atendimento, clientes_atendidos>>
     ELSE IF st.status = "delivering" THEN
       \* the pause is over: decrement, then start the return leg
       /\ st.current_client_id # NoClient => demanda_restante[st.current_client_id] > 0 - MaxOverdraw
       /\ demanda_restante' =
            IF attrs_set /\ st.current_client_id # NoClient
              THEN [demanda_restante EXCEPT ![st.current_client_id] = @ - 1]
              ELSE demanda_restante
       /\ \E rr \in ReturnRouteOutcomes(v) :
            IF rr.nwp > 0
              THEN /\ detailed_routes' = [detailed_routes EXCEPT ![<<v, "return_ts">>] = rr]
                   /\ \E spd \in SpeedsReturning :
                        vehicle_states' = [vehicle_states EXCEPT ![v] =
                          Touch([st EXCEPT !.status = "returning",
                                           !.route_id = <<v, "return_ts">>,
                                           !.progress_percent = ReturnStartProgress(st),
                                           !.current_client_id = NoClient,
                                           !.movement_speed = spd,
                                           !.pause_until = NoPause])]
                   /\ vehicle_positions' = [vehicle_positions EXCEPT ![v] =
                        [@ EXCEPT !.speed = 1, !.status = "returning"]]
                   /\ ev' = Ev("deliver_return", v)
              ELSE /\ vehicle_states' = [vehicle_states EXCEPT ![v] = Touch(st)]
                   /\ ev' = Ev("deliver_fail", v)
                   /\ UNCHANGED <<detailed_routes, vehicle_positions>>
       /\ UNCHANGED <<real_network_graph, is_running, attrs_set,
                      clientes_em_atendimento, clientes_atendidos>>
     ELSE IF st.status = "returning" /\ st.route_id # NoRoute THEN
       LET newp == NewProgress(st, 100) IN
       IF ~RouteUsable(st.route_id) THEN
         /\ vehicle_states' = [vehicle_states EXCEPT ![v] = Touch(st)]
         /\ ev' = Ev("no_route", v)
         /\ UNCHANGED <<real_network_graph, detailed_routes, vehicle_positions,
                        is_running, attrs_set, demanda_restante,
                        clientes_em_atendimento, clientes_atendidos>>
       ELSE IF newp >= 100 /\ HasHub(v) THEN
         \* _vehicle_arrived_at_hub
         /\ vehicle_positions' = [vehicle_positions EXCEPT ![v] =
               [route |-> <<"hub", HubOf(v)>>, pct |-> 0, speed |-> 0,
                status |-> "refueling"]]
         /\ detailed_routes' = [detailed_routes EXCEPT ![st.route_id] = Absent]
         /\ \E pause \in RefuelPauses :
              vehicle_states' = [vehicle_states EXCEPT ![v] =
                 Touch([st EXCEPT !.status = HubArrivalStatus,
                                  !.route_id = NoRoute,
                                  !.progress_percent = 0,
                                  !.movement_speed = 0,
                                  !.pause_until = pause])]
         /\ is_running' = IF ShouldFinish(vehicle_states') THEN FALSE ELSE is_running
         /\ ev' = Ev("hub_arrival", v)
         /\ UNCHANGED <<real_network_graph, attrs_set, demanda_restante,
                        clientes_em_atendimento, clientes_atendidos>>
       ELSE
         /\ vehicle_states' = [vehicle_states EXCEPT ![v] =
               Touch([st EXCEPT !.progress_percent = newp])]
         /\ vehicle_positions' = [vehicle_positions EXCEPT ![v] =
               [SimularMovimento(st.route_id, newp) EXCEPT !.speed = 1]]
         /\ ev' = Ev("return_move", v)
         /\ UNCHANGED <<real_network_graph, detailed_routes, is_running,
                        attrs_set, demanda_restante,
                        clientes_em_atendimento, clientes_atendidos>>
     ELSE
       \* moving or returning without a route id
       /\ vehicle_states' = [vehicle_states EXCEPT ![v] = Touch(st)]
       /\ ev' = Ev("no_route", v)
       /\ UNCHANGED <<real_network_graph, detailed_routes, vehicle_positions,
                      is_running, attrs_set, demanda_restante,
                      clientes_em_atendimento, clientes_atendidos>>
  /\ tick_idx' = TickIndexAfter(tick_idx, ev'.op = "deliver_fail")
  /\ MovementFrame

\* end of the tick: with probability 0.1 offer a route to every idle
\* vehicle, then sleep update_interval
TickEnd ==
  /\ tick_pc = "update"
  /\ tick_idx > Len(rede.veiculos)
  /\ \E coin \in BOOLEAN :
       IF coin
         THEN \E S \in MaybeAssignNewRoutes(Svc) :
                /\ SetSvc(S)
                /\ ev' = Ev(IF S = Svc THEN "tick_end_offer" ELSE "tick_end_assign", "none")
         ELSE /\ SetSvc(Svc)
              /\ ev' = Ev("tick_end", "none")
  /\ tick_pc' = "sleep"
  /\ tick_idx' = 0
  /\ tick_due' = FALSE
  /\ UNCHANGED <<rede, vehicle_positions, is_running, clientes_atendidos>>
  /\ MovementFrame

\* time passes while the loop sleeps
\* last_update is read only while travelling (moving, returning); in every
\* other status it is overwritten before it is read, so it is not aged there.
\* Once the loop has ended nothing reads the clock-dependent fields again.
Aged(st, d) ==
  [st EXCEPT !.pause_until = IF @ = NoPause THEN NoPause ELSE Max(0, @ - d),
             !.last_update = IF st.status \in {"moving", "returning"}
                               THEN Min(ElapsedCap, @ + d) ELSE @]


\* ------------------------------------------------ route computation
\* Coordinates are counted in ninths of a grid step, so that the step of
\* the synthetic route between two grid points is a whole number.
Coord(g) == g * (NumWaypoints - 1)
Points == {<<Coord(x), Coord(y)>> : x \in 0..MaxCoord, y \in 0..MaxCoord}

\* the coordinates of a request that left them out (None)
NoPoint == <<>>

\* The road graph once it is loaded: a two-way street A - B - C and a node D
\* that no street reaches.
RoadNodes == {"A", "B", "C", "D"}
NodeAt == [n \in RoadNodes |->
             CASE n = "A" -> <<0, 0>>
               [] n = "B" -> <<Coord(2), 0>>
               [] n = "C" -> <<Coord(2), Coord(2)>>
               [] n = "D" -> <<0, Coord(2)>>]
RoadEdges == {<<"A", "B">>, <<"B", "A">>, <<"B", "C">>, <<"C", "B">>}

Dist2(p, q) == (p[1] - q[1]) * (p[1] - q[1]) + (p[2] - q[2]) * (p[2] - q[2])

\* ox.nearest_nodes: a node at the least distance (any of them on a tie)
NearestNodes(p) ==
  {n \in RoadNodes : \A m \in RoadNodes : Dist2(NodeAt[n], p) <= Dist2(NodeAt[m], p)}

\* the simple paths of k edges that start at a
RECURSIVE PathsFrom(_, _)
PathsFrom(a, k) ==
  IF k = 0 THEN {<<a>>}
  ELSE UNION { {Append(q, n) : n \in {m \in RoadNodes :
                                        /\ <<q[Len(q)], m>> \in RoadEdges
                                        /\ m \notin Range(q)}} :
               q \in PathsFrom(a, k - 1) }

\* nx.shortest_path: the paths of least length from a to b; none when b
\* cannot be reached (NetworkXNoPath)
ShortestPaths(a, b) ==
  LET reach(k) == {q \in PathsFrom(a, k) : q[Len(q)] = b}
      ks == {k \in 0..(Cardinality(RoadNodes) - 1) : reach(k) # {}}
  IN IF ks = {} THEN {}
     ELSE reach(CHOOSE k \in ks : \A j \in ks : k <= j)

Raised == [optimized |-> FALSE, raised |-> TRUE, waypoints |-> <<>>]

\* variant: the step divides by the number of waypoints
PassoSinteticoCurto(a, b) == (b - a) \div NumWaypoints

\* lat_step, lon_step of _calcular_rota_sintetica
PassoSintetico(a, b) == (b - a) \div (NumWaypoints - 1)

\* _calcular_rota_sintetica: 10 waypoints on the straight line; arithmetic
\* on a missing coordinate raises TypeError
RotaSintetica(o, d) ==
  IF o = NoPoint \/ d = NoPoint THEN Raised
  ELSE [optimized |-> FALSE, raised |-> FALSE,
        waypoints |-> [i \in 1..NumWaypoints |->
                         <<o[1] + PassoSintetico(o[1], d[1]) * (i - 1),
                           o[2] + PassoSintetico(o[2], d[2]) * (i - 1)>>]]

\* the waypoints of a path of the road graph are its nodes
RotaReal(path) ==
  [optimized |-> TRUE, raised |-> FALSE,
   waypoints |-> [i \in 1..Len(path) |-> NodeAt[path[i]]]]

\* variant: a failed lookup is not caught
RotaAposFalhaPropaga(o, d) == Raised

\* the except clause of calcular_rota_detalhada
RotaAposFalha(o, d) == RotaSintetica(o, d)

\* calcular_rota_detalhada on the graph g it has after trying to load it:
\* the routes it may return
RotasDetalhadas(g, o, d) ==
  IF g = "none" THEN {RotaSintetica(o, d)}
  ELSE IF o = NoPoint \/ d = NoPoint THEN {RotaAposFalha(o, d)}
  ELSE UNION { IF ShortestPaths(a, b) = {}
                 THEN {RotaAposFalha(o, d)}
                 ELSE {RotaReal(q) : q \in ShortestPaths(a, b)} :
               a \in NearestNodes(o), b \in NearestNodes(d) }

NoCall == [has |-> FALSE, origin |-> NoPoint, dest |-> NoPoint,
           graph |-> "none", result |-> Raised]

\* one call calcular_rota_detalhada(origin, dest) with no route_id: the
\* result is returned and not stored
ComputeRoute(o, d) ==
  /\ \E g \in (IF real_network_graph = "G" THEN {"G"} ELSE {"none", "G"}) :
       /\ real_network_graph' = g
       /\ \E r \in RotasDetalhadas(g, o, d) :
            rota' = [has |-> TRUE, origin |-> o, dest |-> d, graph |-> g,
                     result |-> r]
  /\ ev' = Ev("compute_route", "none")
  /\ UNCHANGED <<rede, detailed_routes, vehicle_positions, is_running,
                 vehicle_states, attrs_set, demanda_restante,
                 clientes_em_atendimento, clientes_atendidos,
                 tick_pc, tick_idx, tick_due,
                 conn, active_connections, last_data, broadcasting,
                 has_service, bl, cl, dirty, users, resp, outra>>

\* ------------------------------------------------ user accounts
Usernames == {"admin", "operator", "viewer"}
\* the users whose tokens are presented
Actors == Usernames
EmailOf == [u \in Usernames |->
              CASE u = "admin" -> "admin@"
                [] u = "operator" -> "operator@"
                [] u = "viewer" -> "viewer@"]
\* the e-mail addresses that updates ask for
UpdateEmails == {"viewer@"}
AdminPerms == {"admin", "read", "write", "delete"}
PermChoices == {{"read"}, AdminPerms}

MkUser(email, perms, active) ==
  [email |-> email, permissions |-> perms, is_active |-> active]

\* _insert_default_users
DefaultUsers ==
  [u \in Usernames |->
     MkUser(EmailOf[u],
            CASE u = "admin" -> AdminPerms
              [] u = "operator" -> {"read", "write"}
              [] u = "viewer" -> {"read"},
            TRUE)]

NoRequest == [op |-> "none", actor |-> "none", target |-> "none", code |-> 0]
Resp(op, a, t, code) == [op |-> op, actor |-> a, target |-> t, code |-> code]

\* the fields of a UserUpdate that the model tells apart
Updates ==
  {[email |-> e, set_perms |-> pp[1], perms |-> pp[2],
    set_active |-> aa[1], active |-> aa[2]] :
     e \in UpdateEmails \cup {"null"},
     pp \in {<<FALSE, {}>>} \cup ({TRUE} \X PermChoices),
     aa \in {<<FALSE, FALSE>>} \cup ({TRUE} \X BOOLEAN)}

\* get_current_active_user: the token names a user that exists and is active
Authenticated(a) == a \in DOMAIN users /\ users[a].is_active

\* variant: any permission counts as admin
IsAdminAny(a) == users[a].permissions # {}

IsAdmin(a) == "admin" \in users[a].permissions

\* variant: an admin may delete the own account
IsOwnAccountNever(a, t) == FALSE

\* current_user.username == username
IsOwnAccount(a, t) == a = t

EmailTaken(e, except) ==
  \E u \in DOMAIN users : u # except /\ users[u].email = e

Remove(f, k) == [x \in DOMAIN f \ {k} |-> f[x]]

\* POST /register
RegisterUser(u, e, ps) ==
  /\ IF u \in DOMAIN users \/ EmailTaken(e, "none")
       THEN /\ resp' = Resp("register", "none", u, 400)
            /\ UNCHANGED users
       ELSE /\ users' = Put(users, u, MkUser(e, ps, TRUE))
            /\ resp' = Resp("register", "none", u, 201)

\* GET /users
ListUsers(a) ==
  /\ UNCHANGED users
  /\ resp' = Resp("list", a, "none",
                  IF ~Authenticated(a) THEN 401
                  ELSE IF ~IsAdmin(a) THEN 403
                  ELSE 200)

\* PUT /users/{username}
UpdateUser(a, t, up) ==
  LET code ==
        IF ~Authenticated(a) THEN 401
        ELSE IF ~IsOwnAccount(a, t) /\ ~IsAdmin(a) THEN 403
        ELSE IF t \notin DOMAIN users THEN 404
        ELSE IF up.set_perms /\ ~IsAdmin(a) THEN 403
        ELSE IF up.set_active /\ ~IsAdmin(a) THEN 403
        ELSE IF up.email = "null" /\ ~up.set_perms /\ ~up.set_active THEN 400
        ELSE IF up.email # "null" /\ EmailTaken(up.email, t) THEN 400
        ELSE 200
  IN /\ resp' = Resp("update", a, t, code)
     /\ users' = IF code = 200
                   THEN [users EXCEPT ![t] =
                           MkUser(IF up.email = "null" THEN @.email ELSE up.email,
                                  IF up.set_perms THEN up.perms ELSE @.permissions,
                                  IF up.set_active THEN up.active ELSE @.is_active)]
                   ELSE users

\* DELETE /users/{username}
DeleteUser(a, t) ==
  LET code ==
        IF ~Authenticated(a) THEN 401
        ELSE IF ~IsAdmin(a) THEN 403
        ELSE IF IsOwnAccount(a, t) THEN 400
        ELSE IF t \notin DOMAIN users THEN 404
        ELSE 200
  IN /\ resp' = Resp("delete", a, t, code)
     /\ users' = IF code = 200 THEN Remove(users, t) ELSE users

\* the user endpoints do not touch the delivery services
AuthFrame ==
  UNCHANGED <<rede, real_network_graph, detailed_routes, vehicle_positions,
              is_running, vehicle_states, attrs_set, demanda_restante,
              clientes_em_atendimento, clientes_atendidos,
              tick_pc, tick_idx, tick_due, ev,
              conn, active_connections, last_data, broadcasting,
              has_service, bl, cl, dirty, rota, outra>>

\* ------------------------------------------------ a second network
\* get_rede_service hands every network the same RedeService, so a second
\* network has movement states, demands and an in-service set of its own
\* and the position and route stores of the first.  Its description is
\* that of the first network, as when both come from the generator, which
\* numbers the vehicles of every network alike.
NoService == [started |-> FALSE, vs |-> [v \in {} |-> IdleState],
              dr |-> [c \in {} |-> 0], ea |-> {}]

\* start_automatic_movement of the second network's service
StartOutra ==
  /\ tick_pc # "update"
  /\ ~outra.started
  /\ \E S \in InitializeVehicleStates(FreshSvc) :
       /\ outra' = [started |-> TRUE, vs |-> S.vs, dr |-> S.dr, ea |-> S.ea]
       /\ detailed_routes' = S.routes
       /\ real_network_graph' = S.graph
  /\ ev' = Ev("start_outra", "none")
  /\ dirty' = TRUE
  /\ UNCHANGED <<rede, vehicle_positions, is_running, vehicle_states, attrs_set,
                 demanda_restante, clientes_em_atendimento, clientes_atendidos,
                 tick_pc, tick_idx, tick_due,
                 conn, active_connections, last_data, broadcasting,
                 has_service, bl, cl, rota, users, resp>>

\* ------------------------------------------------ connection manager
NoLoop == [pc |-> "none", due |-> FALSE, todo |-> {}, disc |-> {},
           quiet |-> FALSE, got |-> {}]
NoConnections == [has |-> FALSE, set |-> {}]
NoData == [has |-> FALSE, age |-> 0]
\* the broadcast_real_time_updates and periodic_cleanup tasks that can be alive
Loops == DOMAIN bl

\* WebSocket.client_state == CONNECTED
Connected(c) == conn[c] \in {"joining", "open", "dropped"}

\* variant: the tick suspends between two vehicles
TickNotRunningAny == TRUE

\* a handler runs only between the steps of other tasks: a tick never
\* suspends between its first and its last vehicle
TickNotRunning == tick_pc # "update"

\* current_data != last_data.  The payload of obter_dados_websocket carries
\* the time it was built at (age 0: built at this instant), the positions
\* with their own timestamps and random speeds, and the stored routes; two
\* payloads have the same positions and routes exactly when neither was
\* written in between.
DataChanged ==
  \/ ~last_data.has
  \/ last_data.age # 0
  \/ dirty

InitEndpoint ==
  /\ conn = [c \in Conns |-> "none"]
  /\ active_connections = NoConnections
  /\ last_data = NoData
  /\ broadcasting = FALSE
  /\ has_service = FALSE
  /\ dirty = FALSE
  /\ rota = NoCall
  /\ users = DefaultUsers
  /\ resp = NoRequest
  /\ outra = NoService

Init ==
  /\ InitM
  /\ InitEndpoint
  /\ bl = [i \in 1..MaxLoops |-> NoLoop]
  /\ cl = [i \in 1..MaxLoops |-> NoLoop]

\* manager.connect: accept the socket and add it to the network's set.
\* Each element of Conns is one WebSocket object: it is accepted once, and
\* its handler ends in "gone".  The sockets are interchangeable, so they
\* are accepted in the order of ConnOrder.
Connect(c) ==
  /\ TickNotRunning
  /\ UNCHANGED others
  /\ conn[c] = "none"
  /\ \A i \in DOMAIN ConnOrder :
       ConnOrder[i] = c => \A j \in 1..(i - 1) : conn[ConnOrder[j]] # "none"
  /\ conn' = [conn EXCEPT ![c] = "joining"]
  /\ active_connections' = [has |-> TRUE, set |-> active_connections.set \cup {c}]
  /\ ev' = Ev("connect", c)
  /\ UNCHANGED <<mstate, last_data, broadcasting, has_service, bl, cl, dirty>>

\* websocket_endpoint after the initial data: start broadcasting, the
\* movement service and the two loops when the flag is not set
Subscribe(c) ==
  /\ TickNotRunning
  /\ UNCHANGED others
  /\ conn[c] = "joining"
  /\ conn' = [conn EXCEPT ![c] = "open"]
  /\ UNCHANGED <<rede, vehicle_positions, active_connections, last_data>>
  /\ IF broadcasting
       THEN /\ ev' = Ev("subscribe", c)
            /\ UNCHANGED <<real_network_graph, detailed_routes, is_running,
                           vehicle_states, attrs_set, demanda_restante,
                           clientes_em_atendimento, clientes_atendidos,
                           tick_pc, tick_idx, tick_due,
                           broadcasting, has_service, bl, cl, dirty>>
       ELSE /\ broadcasting' = TRUE
            /\ has_service' = TRUE
            /\ IF has_service
                 THEN /\ ev' = Ev("subscribe_loops", c)
                      /\ dirty' = dirty
                      /\ UNCHANGED <<real_network_graph, detailed_routes, is_running,
                                     vehicle_states, attrs_set, demanda_restante,
                                     clientes_em_atendimento, clientes_atendidos,
                                     tick_pc, tick_idx, tick_due>>
                 ELSE /\ is_running' = TRUE
                      /\ \E S \in InitializeVehicleStates(FreshSvc) : SetSvc(S)
                      /\ clientes_atendidos' = {}
                      /\ tick_pc' = "sleep"
                      /\ tick_due' = TRUE
                      /\ tick_idx' = 0
                      /\ ev' = Ev("subscribe_start", c)
                      /\ dirty' = TRUE
            /\ \E i \in Loops, j \in Loops :
                 /\ bl[i].pc = "none"
                 /\ cl[j].pc = "none"
                 /\ bl' = [bl EXCEPT ![i] = [NoLoop EXCEPT !.pc = "sleep", !.due = TRUE]]
                 /\ cl' = [cl EXCEPT ![j] = [NoLoop EXCEPT !.pc = "sleep"]]

\* the peer goes away: the handler has not run yet; the socket may or may
\* not show the disconnect
Drop(c) ==
  /\ TickNotRunning
  /\ UNCHANGED others
  /\ conn[c] = "open"
  /\ \E s \in {"dropped", "closed"} : conn' = [conn EXCEPT ![c] = s]
  /\ ev' = Ev("drop", c)
  /\ UNCHANGED <<mstate, active_connections, last_data, broadcasting,
                 has_service, bl, cl, dirty>>

\* the finally block of websocket_endpoint: manager.disconnect, then the
\* flag is cleared when the network has no entry
Disconnect(c) ==
  /\ TickNotRunning
  /\ UNCHANGED others
  /\ conn[c] \in {"open", "dropped", "closed"}
  /\ conn' = [conn EXCEPT ![c] = "gone"]
  /\ LET rest == active_connections.set \ {c}
         last == active_connections.has /\ rest = {}
     IN /\ active_connections' =
             IF last THEN NoConnections
             ELSE [active_connections EXCEPT !.set = rest]
        /\ last_data' = IF last THEN NoData ELSE last_data
        /\ broadcasting' = IF last \/ ~active_connections.has THEN FALSE ELSE broadcasting
        /\ is_running' = IF last /\ has_service THEN FALSE ELSE is_running
        /\ has_service' = IF last THEN FALSE ELSE has_service
  /\ ev' = Ev("disconnect", c)
  /\ UNCHANGED <<rede, real_network_graph, detailed_routes, vehicle_positions,
                 vehicle_states, attrs_set, demanda_restante,
                 clientes_em_atendimento, clientes_atendidos,
                 tick_pc, tick_idx, tick_due, bl, cl, dirty>>

\* ------------------------------------------------ broadcast loop
\* The end of broadcast_to_network once no connection is left to send to:
\* the failed connections D are discarded from the network's set (KeyError
\* when the entry is gone, which the loop catches before it sleeps), and an
\* emptied entry is deleted together with last_data; ld is last_data as the
\* iteration left it.
\* variant: the connections that failed stay in the set
BroadcastFinishKeep(i, D, ld, lp) ==
  /\ UNCHANGED <<active_connections, broadcasting>>
  /\ last_data' = ld
  /\ bl' = [bl EXCEPT ![i] = [lp EXCEPT !.pc = "sleep", !.due = FALSE,
                                       !.todo = {}, !.disc = {}]]

\* the end of broadcast_to_network: the failed connections are discarded
\* and an emptied network is forgotten
BroadcastFinish(i, D, ld, lp) ==
  LET after == [active_connections EXCEPT !.set = @ \ D]
      emptied == active_connections.has /\ after.set = {}
  IN /\ active_connections' = IF emptied THEN NoConnections ELSE after
     /\ last_data' = IF emptied THEN NoData ELSE ld
     /\ broadcasting' = IF emptied THEN FALSE ELSE broadcasting
     /\ bl' = [bl EXCEPT ![i] = [lp EXCEPT !.pc = "sleep", !.due = FALSE,
                                          !.todo = {}, !.disc = {}]]

\* broadcast_to_network from the current position up to the next awaited
\* send_text, or to its end
SendPhase(i, ld, lp) ==
  LET live == {c \in lp.todo : Connected(c)}
  IN IF live # {}
       THEN /\ \E c \in live :
                 bl' = [bl EXCEPT ![i] =
                   [lp EXCEPT !.pc = "await", !.due = FALSE,
                              !.todo = @ \ {c},
                              !.disc = IF conn[c] = "dropped" THEN @ \cup {c} ELSE @,
                              !.got = IF conn[c] = "dropped" THEN @ ELSE @ \cup {c}]]
            /\ last_data' = ld
            /\ UNCHANGED <<active_connections, broadcasting>>
       ELSE BroadcastFinish(i, lp.disc \cup lp.todo, ld, lp)

\* broadcast_real_time_updates: one iteration from the while test
BroadcastWake(i) ==
  /\ TickNotRunning
  /\ UNCHANGED others
  /\ bl[i].pc = "sleep"
  /\ bl[i].due
  /\ UNCHANGED <<mstate, conn, has_service, cl>>
  /\ IF ~broadcasting THEN
       /\ bl' = [bl EXCEPT ![i] = NoLoop]
       /\ ev' = Ev("broadcast_exit", "none")
       /\ UNCHANGED <<active_connections, last_data, broadcasting, dirty>>
     ELSE IF ~active_connections.has \/ active_connections.set = {} THEN
       /\ broadcasting' = FALSE
       /\ bl' = [bl EXCEPT ![i] = NoLoop]
       /\ ev' = Ev("broadcast_stop", "none")
       /\ UNCHANGED <<active_connections, last_data, dirty>>
     ELSE IF DataChanged THEN
       /\ SendPhase(i, [has |-> TRUE, age |-> 0],
                    [NoLoop EXCEPT !.todo = active_connections.set,
                                   !.quiet = last_data.has /\ ~dirty])
       /\ dirty' = FALSE
       /\ ev' = Ev("broadcast_send", "none")
     ELSE
       /\ bl' = [bl EXCEPT ![i] = [NoLoop EXCEPT !.pc = "sleep",
                                                 !.quiet = last_data.has /\ ~dirty]]
       /\ ev' = Ev("broadcast_skip", "none")
       /\ UNCHANGED <<active_connections, last_data, broadcasting, dirty>>

\* the awaited send_text returned: go on with the remaining connections
BroadcastResume(i) ==
  /\ TickNotRunning
  /\ UNCHANGED others
  /\ bl[i].pc = "await"
  /\ SendPhase(i, last_data, bl[i])
  /\ ev' = Ev("broadcast_resume", "none")
  /\ UNCHANGED <<mstate, conn, has_service, cl, dirty>>

\* periodic_cleanup: after the sleep, cleanup_inactive_connections, then
\* the while test
CleanupWake(j) ==
  /\ TickNotRunning
  /\ UNCHANGED others
  /\ cl[j].pc = "sleep"
  /\ cl[j].due
  /\ LET kept == {c \in active_connections.set : Connected(c)}
         flag == IF active_connections.has /\ kept = {} THEN FALSE ELSE broadcasting
     IN /\ active_connections' = [active_connections EXCEPT !.set = kept]
        /\ broadcasting' = flag
        /\ cl' = [cl EXCEPT ![j] = IF flag THEN [NoLoop EXCEPT !.pc = "sleep"]
                                           ELSE NoLoop]
  /\ ev' = Ev("cleanup", "none")
  /\ UNCHANGED <<mstate, conn, last_data, has_service, bl, dirty>>

\* ------------------------------------------------ client commands
\* The messages a client sends: a JSON object with a command and its data
\* (complete or with the required fields left out), or JSON that is not an
\* object.
Messages ==
  {[json |-> "object", command |-> k, fields |-> f] :
     k \in {"update_vehicle_position", "generate_route"}, f \in {"full", "missing"}}
  \cup {[json |-> "object", command |-> k, fields |-> "full"] :
     k \in {"get_traffic_stats", "start_movement", "stop_movement",
            "get_movement_stats", "unknown"}}
  \cup {[json |-> "other", command |-> "none", fields |-> "missing"]}

\* send_personal_message(message, websocket)
ReplyTo(c) == {c}

\* what the step left behind: the command, the status of the reply, the
\* connections the reply was sent to, and whether handle_client_message
\* ended by raising into the read loop
Reply(c, m, status, raised) ==
  [op |-> "command", veh |-> c, command |-> m.command, fields |-> m.fields,
   json |-> m.json, status |-> status, raised |-> raised, to |-> ReplyTo(c)]

\* atualizar_posicao_veiculo as update_vehicle_position calls it: data.get
\* gives None for a field that is left out, and the position is stored
\* under whatever vehicle_id it got
PosicaoInformada(m) ==
  IF m.fields = "full"
    THEN [route |-> ClientPlace, pct |-> 0, speed |-> 0, status |-> "moving"]
    ELSE [route |-> NoRoute, pct |-> 0, speed |-> 0, status |-> "moving"]

\* variant: the reported position is stored for every vehicle
AtualizarPosicaoVeiculoTodos(pos, k, p) == [x \in DOMAIN pos \cup {k} |-> p]

\* atualizar_posicao_veiculo: self.vehicle_positions[vehicle_id] = position
AtualizarPosicaoVeiculo(pos, k, p) == Put(pos, k, p)

\* the read loop of websocket_endpoint receives one message from c and
\* calls handle_client_message; an exception that leaves the call is
\* answered by the loop with an error message to c
HandleClientMessage(c, m) ==
  /\ TickNotRunning
  /\ UNCHANGED others
  /\ conn[c] = "open"
  /\ UNCHANGED <<rede, tick_idx, conn, active_connections, last_data,
                 broadcasting, bl, cl>>
  /\ IF m.json # "object" THEN
       \* message.get raises AttributeError outside every try
       /\ ev' = Reply(c, m, "error", TRUE)
       /\ UNCHANGED <<real_network_graph, detailed_routes, vehicle_positions,
                      is_running, vehicle_states, attrs_set, demanda_restante,
                      clientes_em_atendimento, clientes_atendidos,
                      tick_pc, tick_due, has_service, dirty>>
     ELSE IF m.command = "update_vehicle_position" THEN
       /\ \E k \in (IF m.fields = "full" THEN Range(rede.veiculos) ELSE {NoVehicle}) :
            /\ vehicle_positions' =
                 AtualizarPosicaoVeiculo(vehicle_positions, k, PosicaoInformada(m))
            /\ dirty' = (dirty \/ k \in Range(rede.veiculos))
       /\ ev' = Reply(c, m, "success", FALSE)
       /\ UNCHANGED <<real_network_graph, detailed_routes,
                      is_running, vehicle_states, attrs_set, demanda_restante,
                      clientes_em_atendimento, clientes_atendidos,
                      tick_pc, tick_due, has_service>>
     ELSE IF m.command = "generate_route" THEN
       /\ IF m.fields = "full"
            THEN /\ \E S \in CalcularRotaDetalhada(Svc, ClientRoute) : SetSvc(S)
                 /\ ev' = Reply(c, m, "success", FALSE)
            ELSE \* the graph may be loaded before the None coordinates raise
                 /\ real_network_graph' \in
                      (IF real_network_graph = "G" THEN {"G"} ELSE {"none", "G"})
                 /\ ev' = Reply(c, m, "error", FALSE)
                 /\ UNCHANGED <<detailed_routes, vehicle_states, attrs_set,
                                demanda_restante, clientes_em_atendimento>>
       /\ UNCHANGED <<vehicle_positions, is_running, clientes_atendidos,
                      tick_pc, tick_due, has_service, dirty>>
     ELSE IF m.command = "start_movement" THEN
       /\ IF has_service
            THEN UNCHANGED <<real_network_graph, detailed_routes, is_running,
                             vehicle_states, attrs_set, demanda_restante,
                             clientes_em_atendimento, clientes_atendidos,
                             tick_pc, tick_due, dirty>>
            ELSE /\ is_running' = TRUE
                 /\ \E S \in InitializeVehicleStates(FreshSvc) : SetSvc(S)
                 /\ clientes_atendidos' = {}
                 /\ tick_pc' = "sleep"
                 /\ tick_due' = TRUE
                 /\ dirty' = TRUE
       /\ has_service' = TRUE
       /\ ev' = Reply(c, m, "success", FALSE)
       /\ UNCHANGED vehicle_positions
     ELSE IF m.command = "stop_movement" THEN
       /\ is_running' = IF has_service THEN FALSE ELSE is_running
       /\ ev' = Reply(c, m, "success", FALSE)
       /\ UNCHANGED <<real_network_graph, detailed_routes, vehicle_positions,
                      vehicle_states, attrs_set, demanda_restante,
                      clientes_em_atendimento, clientes_atendidos,
                      tick_pc, tick_due, has_service, dirty>>
     ELSE
       \* get_traffic_stats and get_movement_stats read; any other command
       \* name is answered with an error
       /\ ev' = Reply(c, m, IF m.command = "unknown" THEN "error" ELSE "success", FALSE)
       /\ UNCHANGED <<real_network_graph, detailed_routes, vehicle_positions,
                      is_running, vehicle_states, attrs_set, demanda_restante,
                      clientes_em_atendimento, clientes_atendidos,
                      tick_pc, tick_due, has_service, dirty>>

\* ------------------------------------------------ time
\* Time passes when every task is asleep and no sleep has run out; every
\* sleep of the program (1 s, 2 s, 5 s, 30 s) is shorter than a delay.
Advance(d) ==
  /\ tick_pc # "update"
  /\ UNCHANGED others
  /\ ~(tick_pc = "sleep" /\ tick_due)
  /\ \A c \in Conns : conn[c] # "joining"
  /\ \A i \in Loops : bl[i].pc # "await" /\ ~bl[i].due /\ ~cl[i].due
  /\ vehicle_states' = IF tick_pc = "sleep"
                         THEN [v \in DOMAIN vehicle_states |-> Aged(vehicle_states[v], d)]
                         ELSE vehicle_states
  /\ tick_due' = (tick_pc = "sleep")
  /\ bl' = [i \in Loops |-> [bl[i] EXCEPT !.due = (bl[i].pc = "sleep")]]
  /\ cl' = [i \in Loops |-> [cl[i] EXCEPT !.due = (cl[i].pc = "sleep")]]
  /\ last_data' = [last_data EXCEPT !.age = IF last_data.has THEN 1 ELSE 0]
  /\ ev' = Ev("advance", "none")
  /\ UNCHANGED <<rede, real_network_graph, detailed_routes, vehicle_positions,
                 is_running, attrs_set, demanda_restante,
                 clientes_em_atendimento, clientes_atendidos, tick_pc, tick_idx,
                 conn, active_connections, broadcasting, has_service, dirty>>

\* ------------------------------------------------ specifications
vars == <<rede, real_network_graph, detailed_routes, vehicle_positions,
          is_running, vehicle_states, attrs_set, demanda_restante,
          clientes_em_atendimento, clientes_atendidos,
          tick_pc, tick_idx, tick_due, ev,
          conn, active_connections, last_data, broadcasting, has_service,
          bl, cl, dirty, rota, users, resp, outra>>

\* the movement service alone, started once
Next ==
  \/ StartAutomaticMovement
  \/ TickStart
  \/ UpdateVehicle
  \/ TickEnd
  \/ \E d \in Delays : Advance(d)

Spec == Init /\ [][Next]_vars

\* the movement service on two-vehicle networks with ticks half a delivery
\* pause apart, so that a tick finds a vehicle still pausing at its client
DelaysShort == {30, 60}

InitShort == Init /\ rede \in Redes21 \cup Redes22

NextShort ==
  \/ StartAutomaticMovement
  \/ TickStart
  \/ UpdateVehicle
  \/ TickEnd
  \/ \E d \in DelaysShort : Advance(d)

SpecShort == InitShort /\ [][NextShort]_vars

\* two networks with the same vehicle ids, simulated at the same time
InitNets == Init /\ rede \in Redes11

NextNets ==
  \/ StartAutomaticMovement
  \/ StartOutra
  \/ TickStart
  \/ UpdateVehicle
  \/ TickEnd
  \/ \E d \in Delays : Advance(d)

SpecNets == InitNets /\ [][NextNets]_vars

\* the tracking endpoint with its subscribers, loops and movement service
InitWS == Init /\ rede \in RedesWS

NextWS ==
  \/ \E c \in Conns : Connect(c)
  \/ \E c \in Conns : Subscribe(c)
  \/ \E c \in Conns : Drop(c)
  \/ \E c \in Conns : Disconnect(c)
  \/ \E i \in Loops : BroadcastWake(i)
  \/ \E i \in Loops : BroadcastResume(i)
  \/ \E j \in Loops : CleanupWake(j)
  \/ TickStart
  \/ UpdateVehicle
  \/ TickEnd
  \/ \E d \in DelaysWS : Advance(d)

SpecWS == InitWS /\ [][NextWS]_vars

\* the tracking endpoint with subscribers that stay and send commands while
\* the first sleep of the loops has not run out
NextCmd ==
  \/ \E c \in Conns : Connect(c)
  \/ \E c \in Conns : Subscribe(c)
  \/ \E c \in Conns : \E m \in Messages : HandleClientMessage(c, m)
  \/ \E i \in Loops : BroadcastWake(i)
  \/ \E i \in Loops : BroadcastResume(i)
  \/ TickStart
  \/ UpdateVehicle
  \/ TickEnd

SpecCmd == InitWS /\ [][NextCmd]_vars

\* the tracking endpoint of a network with two vehicles and two clients,
\* whose subscribers stay connected
RedesSnap ==
  { MkRede(<<"v1", "v2">>, HubBaseStd, <<"c1", "c2">>, [c \in AllClients |-> 1],
           PrioSame(<<"c1", "c2">>), LocalNear) }

InitSnap == Init /\ rede \in RedesSnap

NextSnap ==
  \/ \E c \in Conns : Connect(c)
  \/ \E c \in Conns : Subscribe(c)
  \/ \E i \in Loops : BroadcastWake(i)
  \/ \E i \in Loops : BroadcastResume(i)
  \/ TickStart
  \/ UpdateVehicle
  \/ TickEnd
  \/ \E d \in DelaysWS : Advance(d)

SpecSnap == InitSnap /\ [][NextSnap]_vars

\* the tracking endpoint of a network whose vehicle has no client to serve,
\* with room for one more pair of loops than the subscribers should need
RedesIdle ==
  { MkRede(<<"v1">>, HubBaseStd, <<>>, [c \in {} |-> 0], [c \in {} |-> NORMAL],
           LocalFlat) }

InitLoops ==
  /\ rede \in RedesIdle
  /\ InitService
  /\ InitEndpoint
  /\ bl = [i \in 1..(MaxLoops + 1) |-> NoLoop]
  /\ cl = [i \in 1..(MaxLoops + 1) |-> NoLoop]

SpecLoops == InitLoops /\ [][NextWS]_vars

\* the route service alone, asked for routes between points of the grid
NextRoute ==
  \E o \in Points \cup {NoPoint} : \E d \in Points \cup {NoPoint} : ComputeRoute(o, d)

SpecRoute == InitWS /\ [][NextRoute]_vars

\* the user endpoints alone, with requests in any order
NextAuth ==
  \/ \E u \in Usernames, ps \in PermChoices :
       RegisterUser(u, EmailOf[u], ps) /\ AuthFrame
  \/ \E a \in Actors : ListUsers(a) /\ AuthFrame
  \/ \E a \in Actors, t \in Usernames, up \in Updates :
       UpdateUser(a, t, up) /\ AuthFrame
  \/ \E a \in Actors, t \in Usernames : DeleteUser(a, t) /\ AuthFrame

SpecAuth == InitWS /\ [][NextAuth]_vars

\* the movement service of a one-vehicle, one-client network under the
\* scheduling of the run loop: a task that is ready runs, and time passes
InitOne ==
  /\ Init
  /\ Len(rede.veiculos) = 1
  /\ Len(rede.clientes) = 1
  /\ rede.demanda_media["c1"] = 1

FairSpec ==
  /\ InitOne
  /\ [][Next]_vars
  /\ WF_vars(StartAutomaticMovement)
  /\ WF_vars(TickStart)
  /\ WF_vars(UpdateVehicle)
  /\ WF_vars(TickEnd)
  /\ WF_vars(\E d \in Delays : Advance(d))

\* the same scheduling for one vehicle with a home hub and two clients
InitTwo == Init /\ rede \in Redes12

FairSpecTwo ==
  /\ InitTwo
  /\ [][Next]_vars
  /\ WF_vars(StartAutomaticMovement)
  /\ WF_vars(TickStart)
  /\ WF_vars(UpdateVehicle)
  /\ WF_vars(TickEnd)
  /\ WF_vars(\E d \in Delays : Advance(d))

\* ------------------------------------------------ properties
\* C1: in every reachable state no two vehicle states have the same
\* non-null current_client_id.
C1_NoSharedClient ==
  \A v \in DOMAIN vehicle_states : \A w \in DOMAIN vehicle_states :
    (v # w /\ vehicle_states[v].current_client_id # NoClient)
      => vehicle_states[v].current_client_id # vehicle_states[w].current_client_id

\* C2: the remaining demand of a client never increases, and every step
\* that changes it takes a vehicle holding that client from delivering to
\* returning.
C2_DemandChangesOnlyOnReturn ==
  [][\A c \in DOMAIN demanda_restante \cap DOMAIN demanda_restante' :
       /\ demanda_restante'[c] <= demanda_restante[c]
       /\ demanda_restante'[c] # demanda_restante[c] =>
            \E v \in DOMAIN vehicle_states :
              /\ vehicle_states[v].status = "delivering"
              /\ vehicle_states[v].current_client_id = c
              /\ vehicle_states'[v].status = "returning"]_vars

\* C3: a delivery leg takes exactly 1 from its client's demand: the step
\* that ends a vehicle's delivering status lowers the demand of its client
\* by 1 while the client is in the in-service set, and a step after which
\* the vehicle is still delivering leaves that demand alone.
C3_OneDecrementPerLeg ==
  [][\A v \in DOMAIN vehicle_states \cap DOMAIN vehicle_states' :
       LET c == vehicle_states[v].current_client_id IN
       (vehicle_states[v].status = "delivering" /\ c # NoClient) =>
          IF vehicle_states'[v].status = "delivering"
            THEN demanda_restante'[c] = demanda_restante[c]
            ELSE /\ demanda_restante'[c] = demanda_restante[c] - 1
                 /\ c \in clientes_em_atendimento]_vars

\* C4: the remaining demand of every client is at least 0 in every
\* reachable state.
C4_DemandNonNegative ==
  \A c \in DOMAIN demanda_restante : demanda_restante[c] >= 0

\* C5: the progress of every vehicle is within 0..100, does not decrease
\* over a step that keeps the vehicle's route_id, and is 0 after a step
\* that changes the route_id.
C5_ProgressPerRoute ==
  [][\A v \in DOMAIN vehicle_states' :
       /\ vehicle_states'[v].progress_percent >= 0
       /\ vehicle_states'[v].progress_percent <= 100
       /\ v \in DOMAIN vehicle_states =>
            IF vehicle_states'[v].route_id = vehicle_states[v].route_id
              THEN vehicle_states'[v].progress_percent >= vehicle_states[v].progress_percent
              ELSE vehicle_states'[v].progress_percent = 0]_vars

\* a vehicle has just left the client on a new route, at progress 0
C5_ReturnLegStarted ==
  /\ ev.op = "deliver_return"
  /\ vehicle_states[ev.veh].status = "returning"
  /\ vehicle_states[ev.veh].route_id = <<ev.veh, "return_ts">>
  /\ vehicle_states[ev.veh].progress_percent = 0

\* C6: a step that only calls the assignment (the update of an idle or a
\* refueling vehicle, the offer at the end of the tick) while no client has
\* demand left and is out of service leaves the vehicle states, the demand
\* table, the in-service set and the route store as they were.
C6_AssignWithoutClient ==
  [][(/\ attrs_set
      /\ \A c \in Range(rede.clientes) :
           ~(demanda_restante[c] > 0 /\ c \notin clientes_em_atendimento)
      /\ tick_pc = "update"
      /\ \/ tick_idx > Len(rede.veiculos)
         \/ vehicle_states[rede.veiculos[tick_idx]].status \in {"idle", "refueling"})
     => UNCHANGED <<vehicle_states, demanda_restante, clientes_em_atendimento,
                    detailed_routes>>]_vars

\* the assignment was called for a vehicle and found no client
C6_AssignFoundNoClient ==
  /\ ev.op \in {"refuel_none", "idle_none"}
  /\ attrs_set
  /\ \A c \in Range(rede.clientes) :
       ~(demanda_restante[c] > 0 /\ c \notin clientes_em_atendimento)

\* C7 as stated: the offer at the end of a tick to the k idle vehicles with
\* m eligible clients makes exactly min(k, m) of them moving, each toward a
\* different eligible client, and leaves the others idle.
C7_MinOfIdleAndEligible ==
  [][(tick_pc = "update" /\ ev'.op \in {"tick_end_assign", "tick_end_offer"}) =>
       LET K == {v \in DOMAIN vehicle_states :
                   vehicle_states[v].status = "idle" /\ vehicle_states[v].pause_until <= 0}
           M == {c \in Range(rede.clientes) :
                   demanda_restante[c] > 0 /\ c \notin clientes_em_atendimento}
           moved == {v \in K : vehicle_states'[v].status = "moving"}
       IN /\ Cardinality(moved) = Min(Cardinality(K), Cardinality(M))
          /\ \A v \in moved : vehicle_states'[v].current_client_id \in M
          /\ \A v \in moved : \A w \in moved :
               v # w => vehicle_states'[v].current_client_id #
                        vehicle_states'[w].current_client_id
          /\ \A v \in K \ moved : vehicle_states'[v].status = "idle"]_vars

\* C7 amended: the same, counting the k idle vehicles whose home hub is a
\* hub of the network.
C7_MinOfIdleWithHubAndEligible ==
  [][(tick_pc = "update" /\ ev'.op \in {"tick_end_assign", "tick_end_offer"}) =>
       LET K == {v \in DOMAIN vehicle_states :
                   /\ vehicle_states[v].status = "idle"
                   /\ vehicle_states[v].pause_until <= 0
                   /\ rede.hub_base[v] \in Hubs}
           M == {c \in Range(rede.clientes) :
                   demanda_restante[c] > 0 /\ c \notin clientes_em_atendimento}
           moved == {v \in DOMAIN vehicle_states :
                       vehicle_states[v].status = "idle" /\
                       vehicle_states'[v].status = "moving"}
       IN /\ moved \subseteq K
          /\ Cardinality(moved) = Min(Cardinality(K), Cardinality(M))
          /\ \A v \in moved : vehicle_states'[v].current_client_id \in M
          /\ \A v \in moved : \A w \in moved :
               v # w => vehicle_states'[v].current_client_id #
                        vehicle_states'[w].current_client_id
          /\ \A v \in DOMAIN vehicle_states :
               (vehicle_states[v].status = "idle" /\ v \notin moved)
                 => vehicle_states'[v].status = "idle"]_vars

\* two idle vehicles with a hub were offered one client: one took it
C7_TwoIdleOneClient ==
  /\ ev.op = "tick_end_assign"
  /\ Len(rede.clientes) = 1
  /\ \E v \in DOMAIN vehicle_states : \E w \in DOMAIN vehicle_states :
       /\ v # w
       /\ rede.hub_base[v] \in Hubs /\ rede.hub_base[w] \in Hubs
       /\ vehicle_states[v].status = "moving"
       /\ vehicle_states[v].progress_percent = 0
       /\ vehicle_states[v].last_update = 0
       /\ vehicle_states[w].status = "idle"

C9_UnchangedSnapshotNotSent ==
  \A i \in Loops : bl[i].quiet => bl[i].got = {}

\* C10: once the network has no subscriber, every endpoint handler has
\* ended and the sweep loop has run and ended, the tick loop is stopped.
C10_NoSubscribersStopsTicks ==
  (/\ active_connections.set = {}
   /\ \A c \in Conns : conn[c] \in {"none", "gone"}
   /\ \A j \in Loops : cl[j].pc = "none")
  => ~is_running

\* C11: once no client has demand left, the run eventually reaches a state
\* in which every vehicle is idle and the movement service has cleared
\* is_running by itself.
C11_SelfTermination ==
  (attrs_set /\ \A c \in DOMAIN demanda_restante : demanda_restante[c] = 0)
    ~> (/\ ~is_running
        /\ \A v \in DOMAIN vehicle_states : vehicle_states[v].status = "idle")

\* C12: a start_movement command answered with success leaves the tick loop
\* of the network running (also when a stop_movement came before it), and a
\* stop_movement answered with success leaves it stopped.
C12_StartAfterStopRuns ==
  (ev.op = "command" /\ ev.status = "success") =>
    /\ ev.command = "start_movement" => (is_running /\ tick_pc \in {"sleep", "update"})
    /\ ev.command = "stop_movement" => ~is_running

\* C13: whatever message a connection sends (a known command, an unknown
\* one, a command with fields left out, JSON that is not an object), the
\* replies go to that connection only and handle_client_message returns
\* without raising into the read loop.
C13_ReplyToSenderWithoutRaising ==
  ev.op = "command" => (ev.to \subseteq {ev.veh} /\ ~ev.raised)

\* C14: a command with an unknown name, or a known command sent without its
\* required data fields, is answered with an error and leaves the position
\* store, the route store and the simulation state as they were.
C14_MalformedCommandRejected ==
  [][(/\ ev'.op = "command"
      /\ ev'.json = "object"
      /\ ev'.command = "unknown" \/ ev'.fields = "missing")
     => /\ ev'.status = "error"
        /\ UNCHANGED <<vehicle_positions, detailed_routes, is_running,
                       vehicle_states, attrs_set, demanda_restante,
                       clientes_em_atendimento, clientes_atendidos,
                       tick_pc, tick_idx, tick_due>>]_vars

C16_FallbackWithoutRaising ==
  (rota.has /\ rota.origin # NoPoint /\ rota.dest # NoPoint) =>
    LET pairs == NearestNodes(rota.origin) \X NearestNodes(rota.dest)
        joined == {ab \in pairs : ShortestPaths(ab[1], ab[2]) # {}}
    IN /\ ~rota.result.raised
       /\ (rota.graph = "none" \/ joined = {}) => ~rota.result.optimized
       /\ (rota.graph = "G" /\ joined = pairs) => rota.result.optimized

\* the graph was loaded, no path joins the two nearest nodes, and the
\* straight-line route came back
C16_LookupFailedFallback ==
  /\ rota.has
  /\ rota.graph = "G"
  /\ rota.origin \in Points /\ rota.dest \in Points
  /\ \A a \in NearestNodes(rota.origin) : \A b \in NearestNodes(rota.dest) :
       ShortestPaths(a, b) = {}
  /\ ~rota.result.raised
  /\ ~rota.result.optimized
  /\ Len(rota.result.waypoints) = NumWaypoints

\* C17 as stated: every route that is returned has its first waypoint at the
\* requested origin and its last waypoint at the requested destination,
\* whether it comes from the road graph or from the straight line.
C17_EndpointsAsRequested ==
  (rota.has /\ ~rota.result.raised) =>
    LET w == rota.result.waypoints
    IN w[1] = rota.origin /\ w[Len(w)] = rota.dest

\* C17 amended: a route from the road graph begins at a graph node nearest to
\* the requested origin and ends at a graph node nearest to the requested
\* destination; a straight-line route begins at the requested origin and
\* ends at the requested destination.
C17_EndpointsSnappedOrExact ==
  (rota.has /\ ~rota.result.raised) =>
    LET w == rota.result.waypoints
    IN IF rota.result.optimized
         THEN /\ w[1] \in {NodeAt[n] : n \in NearestNodes(rota.origin)}
              /\ w[Len(w)] \in {NodeAt[n] : n \in NearestNodes(rota.dest)}
         ELSE /\ w[1] = rota.origin
              /\ w[Len(w)] = rota.dest

\* a route of the road graph was returned for an origin and a destination
\* that are not at a node
C17_SnappedRouteReturned ==
  /\ rota.has
  /\ rota.result.optimized
  /\ Len(rota.result.waypoints) > 1
  /\ \A n \in RoadNodes : NodeAt[n] # rota.origin /\ NodeAt[n] # rota.dest

\* C18: a delete request of an administrator for the own username is
\* answered with an error and leaves the user accounts as they were.
C18_NoSelfDelete ==
  [][(/\ resp'.op = "delete"
      /\ resp'.actor = resp'.target
      /\ resp'.actor \in DOMAIN users
      /\ users[resp'.actor].is_active
      /\ "admin" \in users[resp'.actor].permissions)
     => (resp'.code >= 400 /\ users' = users)]_vars

\* an administrator asked to delete the own account while other accounts
\* had been deleted already, and was refused
C18_SelfDeleteRefused ==
  /\ resp.op = "delete"
  /\ resp.actor = resp.target
  /\ resp.code = 400
  /\ resp.actor \in DOMAIN users
  /\ "admin" \in users[resp.actor].permissions
  /\ DOMAIN users # Usernames

\* C19: a request to list the users, to delete an account or to modify the
\* account of another user, made by a user without the admin permission,
\* is denied and leaves the user accounts as they were.
C19_NonAdminDenied ==
  [][(/\ \/ resp'.op \in {"list", "delete"}
         \/ resp'.op = "update" /\ resp'.actor # resp'.target
      /\ resp'.actor \in DOMAIN users
      /\ "admin" \notin users[resp'.actor].permissions)
     => (resp'.code \in {401, 403} /\ users' = users)]_vars

\* a user who lost the admin permission earlier asked to delete another
\* account and was denied
C19_FormerAdminDenied ==
  /\ resp.op = "delete"
  /\ resp.code = 403
  /\ resp.actor = "admin"
  /\ resp.target \in DOMAIN users
  /\ resp.target # resp.actor

\* C20: a step that assigns a client to one vehicle picks a client that had
\* demand left and was not in service, whose priority value is the least
\* among the eligible clients, and that is nearest to the vehicle's home hub
\* among the eligible clients of that priority, the first listed on a tie.
C20_AssignedClientIsBest ==
  [][LET novos == {v \in DOMAIN vehicle_states' :
                     /\ vehicle_states'[v].status = "moving"
                     /\ vehicle_states'[v].current_client_id # NoClient
                     /\ v \in DOMAIN vehicle_states =>
                          vehicle_states[v].status \in {"idle", "refueling"}}
         elig == {c \in Range(rede.clientes) :
                    DemandaView(Svc)[c] > 0 /\ c \notin AtendimentoView(Svc)}
         pos(c) == CHOOSE i \in DOMAIN rede.clientes : rede.clientes[i] = c
         far(v, c) == DistanciaReal(HubAt[rede.hub_base[v]], rede.local[c])
     IN (ev'.op \in {"start", "idle_assign", "refuel_assign", "tick_end_assign"}
         /\ Cardinality(novos) = 1) =>
        \A v \in novos :
          LET c == vehicle_states'[v].current_client_id IN
          /\ c \in elig
          /\ \A d \in elig : rede.prioridade[c] <= rede.prioridade[d]
          /\ \A d \in elig :
               rede.prioridade[d] = rede.prioridade[c] =>
                 \/ far(v, c) < far(v, d)
                 \/ far(v, c) = far(v, d) /\ pos(c) <= pos(d)]_vars

\* C22: the tick that processes a delivering vehicle whose pause is over
\* leaves it returning on a return leg, with progress 0 and no client,
\* with or without the road graph.
C22_DeliveringBecomesReturning ==
  [][(/\ tick_pc = "update"
      /\ tick_idx \in DOMAIN rede.veiculos
      /\ tick_idx' = tick_idx + 1
      /\ vehicle_states[rede.veiculos[tick_idx]].status = "delivering"
      /\ vehicle_states[rede.veiculos[tick_idx]].pause_until <= 0)
     => LET st == vehicle_states'[rede.veiculos[tick_idx]] IN
        /\ st.status = "returning"
        /\ st.route_id # NoRoute
        /\ st.progress_percent = 0
        /\ st.current_client_id = NoClient]_vars

\* C23: the tick that processes a refueling vehicle whose pause is over
\* leaves it moving toward a client when an eligible client exists for it,
\* and idle otherwise; it is never still refueling after that tick.
C23_RefuelingEndsAfterPause ==
  [][(/\ tick_pc = "update"
      /\ tick_idx \in DOMAIN rede.veiculos
      /\ tick_idx' = tick_idx + 1
      /\ vehicle_states[rede.veiculos[tick_idx]].status = "refueling"
      /\ vehicle_states[rede.veiculos[tick_idx]].pause_until <= 0)
     => LET v == rede.veiculos[tick_idx]
            st == vehicle_states'[v]
        IN IF HasHub(v) /\ ClientesDisponiveis(Svc) # <<>>
             THEN st.status = "moving" /\ st.current_client_id # NoClient
             ELSE st.status = "idle" /\ st.current_client_id = NoClient]_vars

C26_PausedVehicleUntouched ==
  [][tick_pc = "update" =>
       /\ \A v \in DOMAIN vehicle_states :
            vehicle_states[v].pause_until > 0 =>
              /\ vehicle_states'[v] = vehicle_states[v]
              /\ vehicle_positions'[v] = vehicle_positions[v]
       /\ (/\ tick_idx \in DOMAIN rede.veiculos
           /\ tick_idx' = tick_idx + 1
           /\ vehicle_states[rede.veiculos[tick_idx]].pause_until > 0)
          => /\ demanda_restante' = demanda_restante
             /\ clientes_em_atendimento' = clientes_em_atendimento
             /\ detailed_routes' = detailed_routes]_vars

\* a tick has just passed over a vehicle that pauses at a client whose
\* delivery is still to be counted
C26_PausedAtClient ==
  /\ ev.op = "frozen"
  /\ vehicle_states[ev.veh].status = "delivering"
  /\ vehicle_states[ev.veh].pause_until > 0
  /\ vehicle_states[ev.veh].current_client_id # NoClient
  /\ demanda_restante[vehicle_states[ev.veh].current_client_id] > 0

\* C27: a step in which the update of a vehicle fails leaves that
\* vehicle's movement state, and the remaining demand and the in-service
\* mark of its client, as they were before the step.
C27_FailedUpdateChangesNothing ==
  [][ev'.op = "deliver_fail" =>
       LET v == ev'.veh
           c == vehicle_states[v].current_client_id
       IN /\ vehicle_states'[v] = vehicle_states[v]
          /\ c # NoClient =>
               /\ demanda_restante'[c] = demanda_restante[c]
               /\ (c \in clientes_em_atendimento') = (c \in clientes_em_atendimento)]_vars

\* C28: the broadcast loop builds its snapshot only between ticks, when
\* every vehicle of the network has been advanced the same number of
\* times; a tick begins with the first vehicle, advances the vehicles one
\* after the other without another task running in between, and ends, so
\* that the next one can begin, only after the last vehicle.
C28_SnapshotsBetweenTicks ==
  [][/\ ev'.op \in {"broadcast_send", "broadcast_skip"} =>
          tick_pc # "update" /\ tick_idx = 0
     /\ (tick_pc # "update" /\ tick_pc' = "update") => tick_idx' = 1
     /\ (tick_pc = "update" /\ tick_pc' = "update") =>
          /\ tick_idx' = tick_idx + 1
          /\ ev'.veh = rede.veiculos[tick_idx]
     /\ (tick_pc = "update" /\ tick_pc' # "update") =>
          tick_idx = Len(rede.veiculos) + 1]_vars

\* a snapshot has just been sent after a tick that brought both vehicles
\* of the network to their clients
C28_SnapshotAfterTick ==
  /\ ev.op = "broadcast_send"
  /\ Len(rede.veiculos) = 2
  /\ \A v \in DOMAIN vehicle_states : vehicle_states[v].status = "delivering"

\* C29: in one broadcast every connection of the set is tried at most
\* once; a connection whose send succeeds has received the message once,
\* whatever happens to the other connections or to the set meanwhile; at
\* the end every connection whose send failed or that was not open is out
\* of the set, the others are kept, and the loop goes on to its sleep,
\* with the broadcasting flag cleared only when the set was emptied.
C29_BroadcastReachesOpenSubscribers ==
  [][\A i \in Loops :
       LET lq == bl'[i]
           prev == IF ev'.op = "broadcast_send"
                     THEN [NoLoop EXCEPT !.todo = active_connections.set]
                     ELSE bl[i]
           failed == prev.disc \cup prev.todo
       IN (ev'.op \in {"broadcast_send", "broadcast_resume"} /\ bl'[i] # bl[i]) =>
          IF lq.pc = "await"
            THEN \E c \in prev.todo :
                   /\ c \notin prev.got \cup prev.disc
                   /\ Connected(c)
                   /\ lq.todo = prev.todo \ {c}
                   /\ IF conn[c] = "dropped"
                        THEN lq.got = prev.got /\ lq.disc = prev.disc \cup {c}
                        ELSE lq.got = prev.got \cup {c} /\ lq.disc = prev.disc
                   /\ active_connections' = active_connections
            ELSE /\ lq.pc = "sleep"
                 /\ lq.got = prev.got
                 /\ \A c \in prev.todo : ~Connected(c)
                 /\ active_connections'.set = active_connections.set \ failed
                 /\ broadcasting' # broadcasting =>
                      active_connections.has /\ active_connections'.set = {}]_vars

\* a broadcast has ended in which one subscriber received the snapshot and
\* stays subscribed while the send to another failed and took it out of
\* the set
C29_OneServedOneFailed ==
  \E i \in Loops : \E c \in Conns : \E d \in Conns :
    /\ ev.op = "broadcast_resume"
    /\ bl[i].pc = "sleep"
    /\ c \in bl[i].got
    /\ c \in active_connections.set
    /\ conn[d] = "dropped"
    /\ d \notin bl[i].got
    /\ d \notin active_connections.set
    /\ broadcasting

\* C30: every route held in the route store is the route_id of some
\* vehicle's movement state.
C30_StoredRoutesAreTravelled ==
  \A rid \in RouteIds :
    detailed_routes[rid] # Absent =>
      \E v \in DOMAIN vehicle_states : vehicle_states[v].route_id = rid

\* C31: when a tick has ended, the status stored with the position of
\* every vehicle that has a position is the status of its movement state.
C31_PositionMirrorsStatus ==
  (tick_pc = "sleep" /\ ev.op \in {"tick_end", "tick_end_offer", "tick_end_assign"}) =>
    \A v \in DOMAIN vehicle_states :
      vehicle_positions[v] # NoPos =>
        vehicle_positions[v].status = vehicle_states[v].status

\* C32: once a second network is being simulated, no step of the first
\* network's movement service (start, tick, assignment, hub arrival)
\* changes a position or a stored route of a vehicle of the second network,
\* or its movement states, demands and in-service set.
C32_NetworksIndependent ==
  [][(outra.started /\ ev'.op \notin {"start_outra", "advance"}) =>
       /\ outra' = outra
       /\ \A v \in DOMAIN outra.vs :
            /\ vehicle_positions'[v] = vehicle_positions[v]
            /\ \A k \in RouteKinds :
                 detailed_routes'[<<v, k>>] = detailed_routes[<<v, k>>]]_vars

\* C33: at most one broadcast loop and at most one sweep loop are alive for the
\* network at any time, whatever the order of subscriptions and departures,
\* also when a subscriber joins before the loops of the last one have woken
C33_OneLoopOfEachKind ==
  /\ Cardinality({i \in Loops : bl[i].pc # "none"}) <= 1
  /\ Cardinality({j \in Loops : cl[j].pc # "none"}) <= 1

\* C34: after the start of the simulation and after every tick the in-service
\* set is exactly the set of the clients that the moving vehicles travel to.
C34_InServiceIsMovingTargets ==
  (tick_pc = "sleep" /\ ev.op \in {"start", "tick_end", "tick_end_offer", "tick_end_assign"}) =>
    clientes_em_atendimento =
      { vehicle_states[v].current_client_id :
          v \in { w \in DOMAIN vehicle_states : vehicle_states[w].status = "moving" } }

C36_TravellingHasStoredRoute ==
  \A v \in DOMAIN vehicle_states :
    /\ vehicle_states[v].status \in {"moving", "returning"} =>
         /\ vehicle_states[v].route_id # NoRoute
         /\ RouteUsable(vehicle_states[v].route_id)
    /\ vehicle_states[v].status = "delivering" =>
         vehicle_states[v].current_client_id # NoClient

\* a tick has advanced a vehicle on its way back along the stored return route
C36_ReturningOnStoredRoute ==
  /\ ev.op = "return_move"
  /\ vehicle_states[ev.veh].status = "returning"
  /\ RouteUsable(vehicle_states[ev.veh].route_id)
  /\ vehicle_states[ev.veh].progress_percent > 0
  /\ vehicle_states[ev.veh].current_client_id = NoClient

\* C37: the update_vehicle_position command changes only the stored position
\* of the vehicle it names: every movement state, the demand table, the
\* in-service set, the route store and the positions of all other vehicles
\* stay as they were.
C37_PositionCommandFrame ==
  [][(ev'.op = "command" /\ ev'.command = "update_vehicle_position") =>
       /\ UNCHANGED <<vehicle_states, demanda_restante, clientes_em_atendimento,
                      detailed_routes>>
       /\ \E k \in (IF ev'.fields = "full" THEN Range(rede.veiculos) ELSE {NoVehicle}) :
            /\ DOMAIN vehicle_positions' = DOMAIN vehicle_positions \cup {k}
            /\ \A w \in DOMAIN vehicle_positions \ {k} :
                 vehicle_positions'[w] = vehicle_positions[w]]_vars

\* a subscriber has reported the position of the vehicle while it was on its
\* way to a client that is marked as in service
C37_PositionReportedWhileMoving ==
  /\ ev.op = "command"
  /\ ev.command = "update_vehicle_position"
  /\ ev.fields = "full"
  /\ ev.status = "success"
  /\ attrs_set
  /\ clientes_em_atendimento # {}
  /\ \E v \in DOMAIN vehicle_states :
       /\ vehicle_states[v].status = "moving"
       /\ RouteUsable(vehicle_states[v].route_id)
       /\ vehicle_positions[v].route = ClientPlace

\* C38: an account comes to hold the admin permission only through a request
\* made by a user who already holds it: a request of an unauthenticated or
\* non-admin requester never creates or yields an admin account.
C38_AdminOnlyFromAdmin ==
  [][\A t \in DOMAIN users' :
       (/\ "admin" \in users'[t].permissions
        /\ t \in DOMAIN users => "admin" \notin users[t].permissions)
       => /\ resp'.actor \in DOMAIN users
          /\ "admin" \in users[resp'.actor].permissions]_vars

====
